---- MODULE Spec2Model ----
(***************************************************************************)
(* Model of the column type inference of rhombusaitestapp                  *)
(* (src/rhombusaitestapp/inference/inference_engine.py).                   *)
(*                                                                         *)
(* One column of the DataFrame that _read_file returned is followed        *)
(* through InferenceEngine.infer: _clean_column, the astype(str)/strip of  *)
(* line 61, and the detector chain of _infer_column_type.  Columns are     *)
(* processed independently by the loop of line 57, so one column stands    *)
(* for every column of the table; an exception in any column aborts infer. *)
(*                                                                         *)
(* A Python string is a sequence of one-character strings, so that the     *)
(* regular expressions, str.lower, str.strip, int() and float() of the     *)
(* source are computed character by character.  Library semantics are      *)
(* those of pandas 2.x (object columns, astype(str) renders missing        *)
(* values as text).                                                        *)
(*                                                                         *)
(* Around the engine, four specifications share the module:                *)
(*   Spec        one column through InferenceEngine.infer                  *)
(*   FileSpec    the DataFile rows: upload, the process_file task with its *)
(*               retries, and column type overrides, one request at a time *)
(*               (FairFileSpec adds the Celery worker's progress)          *)
(*   RaceSpec    two override requests on one row, interleaved             *)
(*   SerialSpec  make_serializable on the values of a sample record        *)
(* Each specification leaves the variables of the others at rest.          *)
(***************************************************************************)
EXTENDS Integers, Sequences, FiniteSets, TLC

VARIABLES
    raw,      \* df[col] as _read_file returned it (never changed afterwards)
    rawdtype, \* its pandas dtype as read
    series,   \* df[col] / the local `series` handed down the detector chain
    dtype,    \* dtype of the values in `series`
    tag,      \* the type string the chain returned for the column, "none" before
    entered,  \* the series handed to _infer_column_type (line 62), <<>> before
    ran,      \* the detectors called so far, with what each answered
    pc        \* position inside infer

vars == <<raw, rawdtype, series, dtype, tag, entered, ran, pc>>

\* The file record layer (models.py, services.py, tasks.py, api.py)
VARIABLES
    db,       \* the DataFile table: db[id] is the stored row of file `id`
    queue,    \* process_file messages held by the broker
    worker,   \* the process_file attempts that are running
    attempts, \* per file, how many process_file attempts have started
    resp,     \* the request handled last, with the answer it was given
    latest,   \* per file and column, the type of the last accepted override
    reqs,     \* the two concurrent override requests, each with its own DataFile instance
    val,      \* the value handed to make_serializable
    out       \* what make_serializable returned for it

fvars == <<db, queue, worker, attempts, resp, latest>>
rvars == <<db, reqs>>
svars == <<val, out>>

\* the parts of the program a specification does not exercise are at rest
NoColumn ==
    /\ raw = <<>> /\ rawdtype = "object" /\ series = <<>> /\ dtype = "object"
    /\ tag = "none" /\ entered = <<>> /\ ran = <<>> /\ pc = "off"
NoRequest == resp = [op |-> "none"]
NoFiles ==
    /\ db = <<>> /\ queue = {} /\ worker = {} /\ attempts = <<>>
    /\ NoRequest /\ latest = <<>>
NoRace == reqs = <<>>
NoValue == val = <<>> /\ out = <<>>

----------------------------------------------------------------------------
(* Cells                                                                   *)

\* a missing value, with the text str() gives it: None as polars hands over a
\* missing cell, nan as np.nan and to_numeric make it, NaT in a datetime column
Missing(repr) == [k |-> "null", repr |-> repr]
None == Missing(<<"N", "o", "n", "e">>)
NaN == Missing(<<"n", "a", "n">>)
NaT == Missing(<<"N", "a", "T">>)
Str(cs) == [k |-> "str", v |-> cs]
Bool(b) == [k |-> "bool", b |-> b]
IsNull(c) == c.k = "null"
IsStr(c) == c.k = "str"

Min(a, b) == IF a < b THEN a ELSE b

\* Series.dropna(): the non-null cells, in order
DropNa(s) == SelectSeq(s, LAMBDA c : ~IsNull(c))

----------------------------------------------------------------------------
(* Characters and str methods                                              *)

Digits == {"0", "1", "2", "3", "4", "5", "6", "7", "8", "9"}
Space == {" "}
UpperCase == <<"A", "B", "C", "D", "E", "F", "G", "H", "I", "J", "K", "L", "M",
               "N", "O", "P", "Q", "R", "S", "T", "U", "V", "W", "X", "Y", "Z">>
LowerCase == <<"a", "b", "c", "d", "e", "f", "g", "h", "i", "j", "k", "l", "m",
               "n", "o", "p", "q", "r", "s", "t", "u", "v", "w", "x", "y", "z">>

LowerChar(c) ==
    IF \E i \in DOMAIN UpperCase : UpperCase[i] = c
    THEN LowerCase[CHOOSE i \in DOMAIN UpperCase : UpperCase[i] = c]
    ELSE c

\* str.lower()
Lower(cs) == [i \in DOMAIN cs |-> LowerChar(cs[i])]

\* str.strip()
RECURSIVE LStrip(_)
LStrip(cs) == IF cs # <<>> /\ Head(cs) \in Space THEN LStrip(Tail(cs)) ELSE cs
RECURSIVE RStrip(_)
RStrip(cs) ==
    IF cs # <<>> /\ cs[Len(cs)] \in Space
    THEN RStrip(SubSeq(cs, 1, Len(cs) - 1))
    ELSE cs
Strip(cs) == RStrip(LStrip(cs))

\* x in s, for a one-character x
Contains(cs, ch) == \E i \in DOMAIN cs : cs[i] = ch

DigitVal(c) ==
    CASE c = "0" -> 0 [] c = "1" -> 1 [] c = "2" -> 2 [] c = "3" -> 3
      [] c = "4" -> 4 [] c = "5" -> 5 [] c = "6" -> 6 [] c = "7" -> 7
      [] c = "8" -> 8 [] c = "9" -> 9

\* int() of an optionally signed run of decimal digits
RECURSIVE NatOf(_)
NatOf(cs) == IF cs = <<>> THEN 0 ELSE 10 * NatOf(SubSeq(cs, 1, Len(cs) - 1)) + DigitVal(cs[Len(cs)])
IntOf(cs) == IF cs # <<>> /\ Head(cs) = "-" THEN 0 - NatOf(Tail(cs)) ELSE NatOf(cs)

----------------------------------------------------------------------------
(* Regular expressions: the patterns of the source as syntax trees, and    *)
(* the set of positions at which a match starting at position i can end.   *)

Ch(set) == [t |-> "ch", cs |-> set]
Cat(rs) == [t |-> "cat", rs |-> rs]
Opt(r) == [t |-> "rep", r |-> r, lo |-> 0, hi |-> 1]
Rep(r, lo, hi) == [t |-> "rep", r |-> r, lo |-> lo, hi |-> hi]
Star(r) == [t |-> "rep", r |-> r, lo |-> 0, hi |-> -1]
Plus(r) == [t |-> "rep", r |-> r, lo |-> 1, hi |-> -1]
D == Ch(Digits)
C(c) == Ch({c})
Alt(rs) == [t |-> "alt", rs |-> rs]
Lit(cs) == Cat([i \in DOMAIN cs |-> Ch({cs[i]})])

RECURSIVE Ends(_, _, _)
RECURSIVE CatEnds(_, _, _)
RECURSIVE RepEnds(_, _, _, _, _)
Ends(r, cs, i) ==
    CASE r.t = "ch" -> IF i <= Len(cs) /\ cs[i] \in r.cs THEN {i + 1} ELSE {}
      [] r.t = "cat" -> CatEnds(r.rs, cs, {i})
      [] r.t = "rep" -> RepEnds(r.r, cs, {i}, r.lo, r.hi)
      [] r.t = "alt" -> UNION {Ends(r.rs[n], cs, i) : n \in DOMAIN r.rs}
CatEnds(rs, cs, P) ==
    IF rs = <<>> \/ P = {} THEN P
    ELSE CatEnds(Tail(rs), cs, UNION {Ends(Head(rs), cs, p) : p \in P})
\* P: the positions reached after the repetitions done so far; lo, hi: how
\* many more are required and allowed (hi < 0: no limit)
RepEnds(r, cs, P, lo, hi) ==
    IF P = {} \/ hi = 0 THEN P
    ELSE LET N == UNION {Ends(r, cs, p) : p \in P} IN
         IF lo > 0 THEN RepEnds(r, cs, N, lo - 1, hi - 1)
         ELSE P \cup RepEnds(r, cs, N \ P, 0, hi - 1)

\* re.match(r"^...$", x): the whole string matches
FullMatch(r, cs) == (Len(cs) + 1) \in Ends(r, cs, 1)

\* re.search(r, x): start of the leftmost match, 0 when there is none
SearchStart(r, cs) ==
    IF \E i \in 1..(Len(cs) + 1) : Ends(r, cs, i) # {}
    THEN CHOOSE i \in 1..(Len(cs) + 1) :
            /\ Ends(r, cs, i) # {}
            /\ \A j \in 1..(i - 1) : Ends(r, cs, j) = {}
    ELSE 0

SetMax(S) == CHOOSE x \in S : \A y \in S : y <= x

----------------------------------------------------------------------------
(* The patterns of the source.  \s is the blank: the alphabet of the model *)
(* has no other white space.                                               *)

WS == Star(Ch(Space))
Frac == Cat(<<C("."), Plus(D)>>)          \* (\.\d+)
D2 == Rep(D, 2, 2)
D4 == Rep(D, 4, 4)
ColonSec == Cat(<<C(":"), D2>>)           \* (:\d{2})
Days == Cat(<<C("d"), C("a"), C("y"), Opt(C("s"))>>)   \* days?

\* r"^\(?-?\d+(\.\d+)?[+-]\d+(\.\d+)?j\)?$"
COMPLEX_PATTERN ==
    Cat(<<Opt(C("(")), Opt(C("-")), Plus(D), Opt(Frac), Ch({"+", "-"}),
          Plus(D), Opt(Frac), C("j"), Opt(C(")"))>>)

DATE_PATTERNS == <<
    Cat(<<D4, C("-"), D2, C("-"), D2, C(" "), D2, C(":"), D2, C(":"), D2, C("."), Plus(D)>>),
    Cat(<<D4, C("-"), D2, C("-"), D2, C(" "), D2, C(":"), D2, C(":"), D2>>),
    Cat(<<D2, C("-"), D2, C("-"), D4, C(" "), D2, C(":"), D2, C(":"), D2>>),
    Cat(<<D2, C("/"), D2, C("/"), D4>>),
    Cat(<<Rep(D, 1, 2), Ch({"-", "/"}), Rep(D, 1, 2), Ch({"-", "/"}), Rep(D, 2, 4)>>),
    Cat(<<D4, C("-"), D2, C("-"), D2>>) >>

Unit(word) == Cat(<<Opt(C("-")), Plus(D), WS, word>>)   \* ^[-]?\d+\s*<unit>$
TIMEDELTA_PATTERNS == <<
    Unit(Days),
    Unit(C("d")),
    Cat(<<Plus(D), C(":"), D2, Opt(ColonSec), Opt(Frac)>>),
    Unit(Cat(<<Lit(<<"h", "o", "u", "r">>), Opt(C("s"))>>)),
    Unit(C("h")),
    Unit(Cat(<<Lit(<<"m", "i", "n", "u", "t", "e">>), Opt(C("s"))>>)),
    Unit(C("m")),
    Unit(Cat(<<Lit(<<"s", "e", "c", "o", "n", "d">>), Opt(C("s"))>>)),
    Unit(C("s")),
    Cat(<<Opt(C("-")), Plus(D), WS, Days, WS, Opt(Ch({"+", "-"})), WS,
          D2, C(":"), D2, Opt(ColonSec), Opt(Frac)>>) >>

\* any(re.match(pattern, x) for pattern in patterns)
MatchesAny(patterns, cs) == \E n \in DOMAIN patterns : FullMatch(patterns[n], cs)

----------------------------------------------------------------------------
(* Values the detectors produce                                            *)

\* a decimal number: sign, integer part, fraction digits (no trailing
\* zeros), and whether it was written with a point (a Python/numpy float)
Num(neg, whole, frac, isfloat) ==
    [k |-> "num", neg |-> neg, whole |-> whole, frac |-> frac, float |-> isfloat]
Complex(re, im) == [k |-> "complex", re |-> re, im |-> im]
Timedelta(days, secs, us) == [k |-> "timedelta", days |-> days, secs |-> secs, us |-> us]
Datetime(y, mo, d, h, mi, s, f) ==
    [k |-> "datetime", y |-> y, mo |-> mo, d |-> d, h |-> h, mi |-> mi, s |-> s, f |-> f]
IsWhole(c) == c.frac = <<>>

RECURSIVE StripZeros(_)
StripZeros(cs) ==
    IF cs # <<>> /\ cs[Len(cs)] = "0" THEN StripZeros(SubSeq(cs, 1, Len(cs) - 1)) ELSE cs

IndexOf(cs, set) ==
    IF \E i \in DOMAIN cs : cs[i] \in set
    THEN CHOOSE i \in DOMAIN cs : cs[i] \in set /\ \A j \in 1..(i - 1) : cs[j] \notin set
    ELSE 0

\* decimal literals: [+-]? ( \d+ (\. \d*)? | \. \d+ ); exponents, inf and
\* hexadecimal forms are outside the alphabet of the model
UNSIGNED == Alt(<<Cat(<<Plus(D), Opt(Cat(<<C("."), Star(D)>>))>>), Cat(<<C("."), Plus(D)>>)>>)
DECIMAL == Cat(<<Opt(Ch({"+", "-"})), UNSIGNED>>)

\* the value of a string that matches DECIMAL
DecimalValue(cs) ==
    LET neg == Head(cs) = "-"
        body == IF Head(cs) \in {"+", "-"} THEN Tail(cs) ELSE cs
        dot == IndexOf(body, {"."})
        whole == IF dot = 0 THEN body ELSE SubSeq(body, 1, dot - 1)
        frac == IF dot = 0 THEN <<>> ELSE SubSeq(body, dot + 1, Len(body))
    IN Num(neg, NatOf(whole), StripZeros(frac), dot # 0)

\* one element of pd.to_numeric(series, errors="coerce")
ToNumeric(c) ==
    IF IsStr(c) /\ FullMatch(DECIMAL, c.v) THEN DecimalValue(c.v) ELSE NaN

----------------------------------------------------------------------------
(* complex(x) of Python, for the strings line 125 hands it                 *)

Signed == Cat(<<Opt(Ch({"+", "-"})), UNSIGNED>>)
ComplexBody ==
    Alt(<<Signed,
          Cat(<<Opt(Ch({"+", "-"})), Opt(UNSIGNED), C("j")>>),
          Cat(<<Signed, Ch({"+", "-"}), Opt(UNSIGNED), C("j")>>)>>)
\* the parentheses are accepted only as a pair
COMPLEX_LITERAL == Alt(<<ComplexBody, Cat(<<C("("), ComplexBody, C(")")>>)>>)

Unity(neg) == Num(neg, 1, <<>>, TRUE)
Zero == Num(FALSE, 0, <<>>, TRUE)
ImagOf(part) ==
    IF part \in {<<>>, <<"+">>, <<"-">>} THEN Unity(part = <<"-">>) ELSE DecimalValue(part)

\* the value of a string that matches COMPLEX_LITERAL
ComplexValue(cs) ==
    LET inner == IF Head(cs) = "(" THEN SubSeq(cs, 2, Len(cs) - 1) ELSE cs
        hasj == inner[Len(inner)] = "j"
        body == IF hasj THEN SubSeq(inner, 1, Len(inner) - 1) ELSE inner
        signs == {i \in 2..Len(body) : body[i] \in {"+", "-"}}
    IN  IF ~hasj THEN Complex(DecimalValue(body), Zero)
        ELSE IF signs = {} THEN Complex(Zero, ImagOf(body))
        ELSE Complex(DecimalValue(SubSeq(body, 1, SetMax(signs) - 1)),
                     ImagOf(SubSeq(body, SetMax(signs), Len(body))))

\* complex(x) raises ValueError on any other string
ComplexRaises(cs) == ~FullMatch(COMPLEX_LITERAL, cs)

----------------------------------------------------------------------------
(* _parse_timedelta                                                        *)

DaysGroup == Cat(<<Opt(C("-")), Plus(D)>>)            \* ([-]?\d+)
DaysRest == Cat(<<WS, Days>>)                         \* \s*days?
DAYS_RE == Cat(<<DaysGroup, DaysRest>>)
HourGroup == Rep(D, 1, 2)                             \* (\d{1,2})
MinuteRest == Cat(<<C(":"), D2>>)                     \* :(\d{2})
SecondGroup == Cat(<<C(":"), D2, Opt(Frac)>>)         \* (:\d{2}(\.\d+)?)
TIME_RE == Cat(<<HourGroup, MinuteRest, Opt(SecondGroup)>>)

\* where a group that starts at i ends, given what has to follow it
GroupEnd(group, rest, cs, i) ==
    SetMax({j \in Ends(group, cs, i) : Ends(rest, cs, j) # {}})

\* float("SS.ffffff"): whole seconds and microseconds
MicrosOf(digits) ==
    NatOf([i \in 1..6 |-> IF i <= Len(digits) THEN digits[i] ELSE "0"])

\* the days component with the sign left out of the group
DaysPart_Unsigned(cs) ==
    LET i == SearchStart(Cat(<<Plus(D), DaysRest>>), cs) IN
    IF i = 0 THEN 0
    ELSE NatOf(SubSeq(cs, i, GroupEnd(Plus(D), DaysRest, cs, i) - 1))

\* the days component: int(days_match.group(1)) days, or nothing
DaysPart(cs) ==
    LET i == SearchStart(DAYS_RE, cs) IN
    IF i = 0 THEN 0
    ELSE IntOf(SubSeq(cs, i, GroupEnd(DaysGroup, DaysRest, cs, i) - 1))

\* the clock component as <<seconds, microseconds>>
TimePart(cs) ==
    LET i == SearchStart(TIME_RE, cs) IN
    IF i = 0 THEN <<0, 0>>
    ELSE LET h == GroupEnd(HourGroup, MinuteRest, cs, i)   \* the ":" after the hours
             hours == NatOf(SubSeq(cs, i, h - 1))
             minutes == NatOf(SubSeq(cs, h + 1, h + 2))
             g3 == Ends(SecondGroup, cs, h + 3)
             sec == IF g3 = {} THEN <<>> ELSE SubSeq(cs, h + 4, SetMax(g3) - 1)
             whole == IF sec = <<>> THEN 0 ELSE NatOf(SubSeq(sec, 1, 2))
             micros == IF Len(sec) > 3 THEN MicrosOf(SubSeq(sec, 4, Len(sec))) ELSE 0
         IN <<hours * 3600 + minutes * 60 + whole, micros>>

_parse_timedelta(cs) == Timedelta(DaysPart(cs), TimePart(cs)[1], TimePart(cs)[2])

----------------------------------------------------------------------------
(* Parsing a date: the ISO forms, which the bulk parser (polars) and the   *)
(* fallback parser (pandas) both accept; every other string of the model's *)
(* vocabulary is accepted by neither.                                      *)

ISO_DATE == DATE_PATTERNS[6]
ISO_DATETIME == Alt(<<DATE_PATTERNS[1], DATE_PATTERNS[2]>>)

N2(cs, i) == NatOf(SubSeq(cs, i, i + 1))
ValidDate(cs) == N2(cs, 6) \in 1..12 /\ N2(cs, 9) \in 1..31
ValidTime(cs) == N2(cs, 12) < 24 /\ N2(cs, 15) < 60 /\ N2(cs, 18) < 60

ParseDatetime(c) ==
    IF ~IsStr(c) THEN NaT
    ELSE IF FullMatch(ISO_DATE, c.v) /\ ValidDate(c.v)
    THEN Datetime(NatOf(SubSeq(c.v, 1, 4)), N2(c.v, 6), N2(c.v, 9), 0, 0, 0, <<>>)
    ELSE IF FullMatch(ISO_DATETIME, c.v) /\ ValidDate(c.v) /\ ValidTime(c.v)
    THEN Datetime(NatOf(SubSeq(c.v, 1, 4)), N2(c.v, 6), N2(c.v, 9),
                  N2(c.v, 12), N2(c.v, 15), N2(c.v, 18), SubSeq(c.v, 21, Len(c.v)))
    ELSE NaT

----------------------------------------------------------------------------
(* The detectors.  Each returns [series, dtype] as the source returns      *)
(* (series, dtype), dtype "none" standing for None; [raised |-> TRUE]      *)
(* stands for an exception leaving the detector.                           *)

Result(s, t) == [series |-> s, dtype |-> t, raised |-> FALSE]
Raised == [series |-> <<>>, dtype |-> "none", raised |-> TRUE]

TrueValues == {<<"t", "r", "u", "e">>, <<"y", "e", "s">>, <<"y">>, <<"1">>, <<"t">>}
FalseValues == {<<"f", "a", "l", "s", "e">>, <<"n", "o">>, <<"n">>, <<"0">>, <<"f">>}
\* _get_boolean_mapping(): its keys, and the value of a key
BooleanKeys == TrueValues \cup FalseValues
BooleanMapping(key) == key \in TrueValues

\* .map(boolean_mapping).astype("bool") of one cell: a missing value maps to
\* NaN, and NaN is truthy
MapBool(c) == IF IsNull(c) THEN Bool(TRUE) ELSE Bool(BooleanMapping(Lower(c.v)))

_infer_boolean(s) ==
    IF \A i \in DOMAIN s : ~IsNull(s[i]) => Lower(s[i].v) \in BooleanKeys
    THEN Result([i \in DOMAIN s |-> MapBool(s[i])], "bool")
    ELSE Result(s, "none")

\* line 125: the values complex() is called on
HasSign(c) == IsStr(c) /\ (Contains(c.v, "+") \/ Contains(c.v, "-"))
ToComplex(c) == IF HasSign(c) THEN ComplexValue(c.v) ELSE NaN

_infer_complex(s) ==
    IF \E i \in DOMAIN s : IsStr(s[i]) /\ FullMatch(COMPLEX_PATTERN, s[i].v)
    THEN IF \E i \in DOMAIN s : HasSign(s[i]) /\ ComplexRaises(s[i].v)
         THEN Raised
         ELSE LET conv == [i \in DOMAIN s |-> ToComplex(s[i])] IN
              IF \E i \in DOMAIN conv : conv[i].k = "complex"
              THEN Result(conv, "complex128")
              ELSE Result(conv, "none")
    ELSE Result(s, "none")

HasNans(s) == \E i \in DOMAIN s : IsNull(s[i])
\* the dtype pd.to_numeric gives the coerced column
NumericDtype(s) ==
    IF HasNans(s) \/ \E i \in DOMAIN s : s[i].float THEN "float64" ELSE "int64"

_infer_numeric(s) ==
    LET numeric_col == [i \in DOMAIN s |-> ToNumeric(s[i])] IN
    IF \E i \in DOMAIN numeric_col : ~IsNull(numeric_col[i])
    THEN Result(numeric_col, IF HasNans(numeric_col) THEN "float64" ELSE "int64")
    ELSE Result(s, "none")

\* infer(file_path, sample_size=1000); process_file passes no sample size
SampleSize == 1000

\* the index sets series.dropna().sample(n=min(sample_size, len)) can draw
Samples(s) ==
    LET nn == DropNa(s) IN
    {S \in SUBSET DOMAIN nn : Cardinality(S) = Min(SampleSize, Len(nn))}

IsDate(c) == MatchesAny(DATE_PATTERNS, c.v)
\* date_matches.mean() > 0.5 (the mean of an empty sample is NaN: False)
MatchRate(s, sample) ==
    2 * Cardinality({i \in sample : IsDate(DropNa(s)[i])}) > Cardinality(sample)

\* str.to_datetime(format=None) takes the format from the first non-null
\* value and raises ComputeError when it finds none
PolarsInfersFormat(s) ==
    \E i \in DOMAIN s :
        /\ ~IsNull(s[i])
        /\ \A j \in 1..(i - 1) : IsNull(s[j])
        /\ ~IsNull(ParseDatetime(s[i]))

_infer_datetime(s, sample) ==
    IF MatchRate(s, sample)
    THEN LET parsed == [i \in DOMAIN s |-> ParseDatetime(s[i])] IN
         IF PolarsInfersFormat(s)
         THEN Result(parsed, "datetime64[ns]")
         ELSE \* except branch: pd.to_datetime(series, errors="coerce")
              IF \E i \in DOMAIN parsed : ~IsNull(parsed[i])
              THEN Result(parsed, "datetime64[ns]")
              ELSE Result(parsed, "none")
    ELSE Result(s, "none")

IsTimedelta(c) == MatchesAny(TIMEDELTA_PATTERNS, Lower(Strip(c.v)))
ToTimedelta(c) == _parse_timedelta(c.v)

_infer_timedelta(s) ==
    IF \E i \in DOMAIN s : ~IsNull(s[i]) /\ IsTimedelta(s[i])
    THEN \* re.search on a missing value raises TypeError
         IF HasNans(s) THEN Raised
         ELSE Result([i \in DOMAIN s |-> ToTimedelta(s[i])], "timedelta64[ns]")
    ELSE Result(s, "none")

\* series.nunique(dropna=True)
NUnique(s) == Cardinality({s[i] : i \in {j \in DOMAIN s : ~IsNull(s[j])}})

_infer_categorical(s) ==
    IF Len(s) = 0 THEN Raised      \* 0 / 0: ZeroDivisionError
    ELSE IF 2 * NUnique(s) < Len(s)
    THEN Result(s, "category")
    ELSE Result(s, "object")

----------------------------------------------------------------------------
(* The columns the model reads                                             *)

MaxRows == 3

S_No == <<"N", "o">>
S_1 == <<"1">>
S_1p5 == <<"1", ".", "5">>
S_Cx == <<"1", "+", "2", "j">>
S_Dash == <<"a", "-", "b">>
S_NaN == <<"N", "a", "N">>
S_Date == <<"2", "0", "2", "0", "-", "0", "1", "-", "0", "2">>
S_NoDate == <<"9", "9", "/", "9", "9", "/", "9", "9">>
S_5d == <<"5", " ", "d">>
S_3days == <<"3", " ", "d", "a", "y", "s">>
S_PadNull == <<" ", "n", "u", "l", "l">>
S_Compound == <<"-", "4", "2", "8", " ", "d", "a", "y", "s", " ", "+", "1", "9", ":",
                "2", "3", ":", "0", "3", ".", "4", "8", "7", "6", "7", "4">>

\* the cells of an object column: text, or None for a missing cell
Vocabulary ==
    {None} \cup {Str(cs) : cs \in {S_No, S_1, S_1p5, S_Cx, S_Dash, S_NaN, S_Date,
                                   S_NoDate, S_5d, S_3days, S_PadNull, S_Compound}}

ObjectColumns == UNION {[1..n -> Vocabulary] : n \in 0..MaxRows}

Txt(ch) == Str(<<ch>>)
Dt == Str(S_Date)
X == Str(S_Dash)
\* longer columns: the ten-row columns of the Categorical/Text boundary and
\* the five-row columns of the Datetime threshold
LongColumns == {
    <<Txt("a"), Txt("a"), Txt("a"), Txt("a"), Txt("b"), Txt("b"), Txt("c"), Txt("c"), Txt("d"), Txt("d")>>,
    <<Txt("a"), Txt("a"), Txt("a"), Txt("a"), Txt("a"), Txt("b"), Txt("c"), Txt("d"), Txt("e"), Txt("e")>>,
    <<Txt("a"), Txt("a"), Txt("a"), Txt("a"), Txt("a"), Txt("b"), Txt("c"), Txt("d"), Txt("e"), Txt("g")>>,
    <<Txt("a"), Txt("a"), Txt("a"), Txt("a"), Txt("b"), Txt("c"), Txt("d"), None, None, None>>,
    <<Dt, Dt, Dt, X, X>>,
    <<Dt, Dt, X, X, X>>,
    <<X, X, Dt, Dt, Dt>> }

\* columns polars typed itself: unquoted integers, floats (a missing cell is
\* NaN), true/false
TypedColumns == {
    [dtype |-> "int64", cells |-> <<Num(FALSE, 1, <<>>, FALSE), Num(FALSE, 0, <<>>, FALSE)>>],
    [dtype |-> "float64", cells |-> <<Num(FALSE, 1, <<"5">>, TRUE), NaN>>],
    [dtype |-> "bool", cells |-> <<Bool(TRUE), Bool(FALSE)>>] }

Columns ==
    {[dtype |-> "object", cells |-> c] : c \in ObjectColumns \cup LongColumns}
        \cup TypedColumns

----------------------------------------------------------------------------
(* infer                                                                   *)

NullTokens == {<<"N", "o", "n", "e">>, <<"N", "a", "N">>, <<"n", "u", "l", "l">>,
               <<"N", "u", "l", "l">>,
               <<"n", "o", "t", " ", "a", "v", "a", "i", "l", "a", "b", "l", "e">>,
               <<"N", "o", "t", " ", "A", "v", "a", "i", "l", "a", "b", "l", "e">>}

\* series.replace([...], np.nan) of one cell
CleanCell(c) == IF IsStr(c) /\ c.v \in NullTokens THEN NaN ELSE c
_clean_column(s) == [i \in DOMAIN s |-> CleanCell(s[i])]

\* str(x).strip() of one cell of an object column
StrOf(c) == IF IsNull(c) THEN c.repr ELSE c.v
Stringified(c) == Str(Strip(StrOf(c)))

\* the list with Complex and Numeric exchanged
Detectors_Swapped == <<"boolean", "numeric", "complex", "datetime", "timedelta">>

\* the detectors in the order of the list of lines 85-91
Detectors == <<"boolean", "complex", "numeric", "datetime", "timedelta">>
Position(name) == CHOOSE n \in DOMAIN Detectors : Detectors[n] = name
After(name) ==
    IF Position(name) < Len(Detectors) THEN Detectors[Position(name) + 1] ELSE "categorical"

\* the dtype of the values a detector returned
ValuesDtype(name, res) ==
    CASE name = "numeric" /\ res.dtype # "none" -> NumericDtype(res.series)
      [] name = "datetime" /\ res.series # <<>> /\ res.series[1].k # "str" -> "datetime64[ns]"
      [] res.dtype # "none" -> res.dtype
      [] OTHER -> "object"

Init ==
    /\ \E col \in Columns : raw = col.cells /\ rawdtype = col.dtype
    /\ series = raw
    /\ dtype = rawdtype
    /\ tag = "none"
    /\ entered = <<>>
    /\ ran = <<>>
    /\ pc = "read"
    /\ NoFiles /\ NoRace /\ NoValue

\* line 58.  pandas 2.x lets replace() downcast an object column in which
\* every cell has become missing to float64
CleanColumn ==
    /\ pc = "read"
    /\ LET cleaned == _clean_column(series) IN
       \/ /\ series' = cleaned
          /\ dtype' = dtype
       \/ /\ dtype = "object" /\ cleaned # series
          /\ \A i \in DOMAIN cleaned : IsNull(cleaned[i])
          /\ series' = [i \in DOMAIN cleaned |-> NaN]
          /\ dtype' = "float64"
    /\ pc' = "cleaned"
    /\ UNCHANGED <<raw, rawdtype, tag, entered, ran>>
    /\ UNCHANGED <<fvars, reqs, svars>>

\* line 60 false: the column keeps the dtype it was read with
KeepDtype ==
    /\ pc = "cleaned" /\ dtype # "object"
    /\ pc' = "done"
    /\ UNCHANGED <<raw, rawdtype, series, dtype, tag, entered, ran>>
    /\ UNCHANGED <<fvars, reqs, svars>>

\* line 61
Stringify ==
    /\ pc = "cleaned" /\ dtype = "object"
    /\ series' = [i \in DOMAIN series |-> Stringified(series[i])]
    /\ entered' = series'
    /\ pc' = Detectors[1]
    /\ UNCHANGED <<raw, rawdtype, dtype, tag, ran>>
    /\ UNCHANGED <<fvars, reqs, svars>>

\* lines 92-94 for one detector, line 97 for the fallback; an exception
\* leaves infer through the handler of lines 66-68
Step(name, res, next) ==
    /\ pc = name
    /\ ran' = Append(ran, [name |-> name, dtype |-> res.dtype, raised |-> res.raised])
    /\ IF res.raised
       THEN pc' = "raised" /\ UNCHANGED <<series, dtype, tag>>
       ELSE /\ series' = res.series
            /\ dtype' = ValuesDtype(name, res)
            /\ tag' = res.dtype
            /\ pc' = IF res.dtype # "none" THEN "done" ELSE next
    /\ UNCHANGED <<raw, rawdtype, entered>>
    /\ UNCHANGED <<fvars, reqs, svars>>

InferBoolean == Step("boolean", _infer_boolean(series), After("boolean"))
InferComplex == Step("complex", _infer_complex(series), After("complex"))
InferNumeric == Step("numeric", _infer_numeric(series), After("numeric"))
InferDatetime ==
    \E sample \in Samples(series) :
        Step("datetime", _infer_datetime(series, sample), After("datetime"))
InferTimedelta == Step("timedelta", _infer_timedelta(series), After("timedelta"))
InferCategorical == Step("categorical", _infer_categorical(series), "done")

Next ==
    \/ CleanColumn
    \/ KeepDtype
    \/ Stringify
    \/ InferBoolean
    \/ InferComplex
    \/ InferNumeric
    \/ InferDatetime
    \/ InferTimedelta
    \/ InferCategorical

Spec == Init /\ [][Next]_vars

----------------------------------------------------------------------------
(* The file record: DataFile (models.py), FileProcessingService            *)
(* (services.py), the endpoints of api.py and the process_file task        *)
(* (tasks.py).  A JSON object is a function from its keys; a nullable      *)
(* JSONField is JsonNull or Dict(d).  Type names and messages are Python   *)
(* strings, i.e. sequences of characters.                                  *)

JsonNull == [null |-> TRUE]
Dict(d) == [null |-> FALSE, d |-> d]
EmptyDict == <<>>
\* truth value of a JSONField: None and {} are false
Truthy(field) == ~field.null /\ DOMAIN field.d # {}
\* d[k] = v
Put(d, k, v) == [x \in DOMAIN d \cup {k} |-> IF x = k THEN v ELSE d[x]]
\* d.update(e)
Update(d, e) == [x \in DOMAIN d \cup DOMAIN e |-> IF x \in DOMAIN e THEN e[x] ELSE d[x]]

\* s occurs in t (Python's `s in t` on strings)
Within(s, t) ==
    \E i \in 0..(Len(t) - Len(s)) : SubSeq(t, i + 1, i + Len(s)) = s

MaxFiles == 1

NewDataFile ==
    [processing_status |-> "UPLOADING", error_message |-> "",
     inferred_types |-> JsonNull, overridden_types |-> JsonNull]

get_column_types(self) ==
    IF ~Truthy(self.inferred_types) THEN EmptyDict
    ELSE IF Truthy(self.overridden_types)
         THEN Update(self.inferred_types.d, self.overridden_types.d)
         ELSE self.inferred_types.d

\* a validity test that does not trim
is_valid_type_Untrimmed(type_name) == type_name # <<>>

\* constants.py 126 (the argument is always a str)
is_valid_type(type_name) == Strip(type_name) # <<>>

HasColumn(self, column_name) ==
    Truthy(self.inferred_types) /\ column_name \in DOMAIN self.inferred_types.d

\* the ValueError of models.py 69 and 72, "" when the override is valid
validate_column_type(self, column_name, custom_type) ==
    IF ~HasColumn(self, column_name) THEN "ValueError"
    ELSE IF ~is_valid_type(custom_type) THEN "ValueError"
    ELSE ""

\* an override that forgets the overrides made before it
Overridden_Fresh(self) == EmptyDict

\* models.py 82: self.overridden_types or {}
Overridden(self) ==
    IF Truthy(self.overridden_types) THEN self.overridden_types.d ELSE EmptyDict

\* the instance after DataFile.override_column_type (models.py 82-84)
WithOverride(self, column_name, custom_type) ==
    [self EXCEPT !.overridden_types = Dict(Put(Overridden(self), column_name, custom_type))]

\* the exception FileProcessingService.override_column_type leaves with on
\* the instance get_file returned, "" when it goes through
OverrideError(self, column_name, custom_type) ==
    IF self.processing_status # "INFERRED" THEN "FileNotProcessedError"
    ELSE IF ~HasColumn(self, column_name) THEN "ColumnNotFoundError"
    ELSE IF ~is_valid_type(custom_type) THEN "InvalidColumnTypeError"
    ELSE validate_column_type(self, column_name, custom_type)

\* api.py 114-137: the status code update_column_type answers with.
\* get_object_or_404 raises Http404, which only `except Exception` catches
OverrideCode(error) ==
    CASE error = "" -> 200
      [] error = "FileNotProcessedError" -> 400
      [] error = "ColumnNotFoundError" -> 404
      [] error = "InvalidColumnTypeError" -> 400
      [] OTHER -> 500


\* services.py 23-28
CSV == "text/csv"
XLSX == "application/vnd.openxmlformats-officedocument.spreadsheetml.sheet"
XLS == "application/vnd.ms-excel"
ALLOWED_CONTENT_TYPES == {CSV, XLSX, XLS}
MAX_FILE_SIZE == 1024 * 1024 * 1024

NO_FILE ==
    <<"N", "o", " ", "f", "i", "l", "e", " ", "w", "a", "s", " ", "s", "u",
    "b", "m", "i", "t", "t", "e", "d">>
TOO_LARGE ==
    <<"F", "i", "l", "e", " ", "s", "i", "z", "e", " ", "c", "a", "n", "n",
    "o", "t", " ", "e", "x", "c", "e", "e", "d", " ", "1", "0", "2", "4",
    "M", "B">>
FILE_IS_EMPTY ==
    <<"F", "i", "l", "e", " ", "i", "s", " ", "e", "m", "p", "t", "y">>
INVALID_FILE_TYPE ==
    <<"I", "n", "v", "a", "l", "i", "d", " ", "f", "i", "l", "e", " ", "t",
    "y", "p", "e", ".", " ", "A", "l", "l", "o", "w", "e", "d", " ", "t",
    "y", "p", "e", "s", " ", "a", "r", "e", ":", " ">>
UPLOADED_OK ==
    <<"F", "i", "l", "e", " ", "u", "p", "l", "o", "a", "d", "e", "d", " ",
    "s", "u", "c", "c", "e", "s", "s", "f", "u", "l", "l", "y">>

\* the detail of the HttpError validate_file raises, <<>> when it returns.
\* The list of allowed types that ends the last message is left out: it
\* is joined from a set, in no fixed order.
\* a validation that tests the content type before the size
validate_file_TypeFirst(file) ==
    IF ~file.named THEN NO_FILE
    ELSE IF file.content_type \notin ALLOWED_CONTENT_TYPES THEN INVALID_FILE_TYPE
    ELSE IF file.size > MAX_FILE_SIZE THEN TOO_LARGE
    ELSE IF file.size = 0 THEN FILE_IS_EMPTY
    ELSE <<>>

validate_file(file) ==
    IF ~file.named THEN NO_FILE
    ELSE IF file.size > MAX_FILE_SIZE THEN TOO_LARGE
    ELSE IF file.size = 0 THEN FILE_IS_EMPTY
    ELSE IF file.content_type \notin ALLOWED_CONTENT_TYPES THEN INVALID_FILE_TYPE
    ELSE <<>>

\* request files: Django's multipart parser drops a part without a file
\* name, so the file an upload request carries is always named
Uploads ==
    [named : {TRUE},
     size : {0, 1, MAX_FILE_SIZE, MAX_FILE_SIZE + 1},
     content_type : {CSV, XLSX, XLS, "text/plain"}]

\* tasks.py 52
max_retries == 3

\* a retry policy that grants one attempt more
ShouldRetry_Once_More(retries) == retries <= max_retries

\* Task.retry: the attempt is queued again unless the retries are used up
ShouldRetry(retries) == retries < max_retries

\* what infer found (tasks.py 66): the dtype of every column
INT64 == <<"i", "n", "t", "6", "4">>
OBJECT == <<"o", "b", "j", "e", "c", "t">>
InferredTables == {EmptyDict, [a |-> INT64, b |-> OBJECT]}
\* str(exc) of the ValueError infer raises (inference_engine.py 66-68)
InferenceError == "Error in type inference"

\* override requests
ColumnNames == {"a", "b", "c"}
CustomTypes == {<<"x">>, <<" ", "y">>, <<" ">>, <<>>}

\* services.py 49-64 behind api.py 43-58
Upload ==
    \E file \in Uploads :
        LET detail == validate_file(file)
            id == Len(db) + 1 IN
        IF detail # <<>>
        THEN /\ resp' = [op |-> "upload", size |-> file.size, content_type |-> file.content_type,
                         code |-> 400, detail |-> detail, file_id |-> 0]
             /\ UNCHANGED <<db, queue, worker, attempts, latest>>
        ELSE /\ Len(db) < MaxFiles
             /\ db' = Append(db, NewDataFile)
             /\ queue' = queue \cup {[file_id |-> id, retries |-> 0]}
             /\ attempts' = Append(attempts, 0)
             /\ latest' = Append(latest, EmptyDict)
             /\ resp' = [op |-> "upload", size |-> file.size, content_type |-> file.content_type,
                         code |-> 201, detail |-> UPLOADED_OK, file_id |-> id]
             /\ UNCHANGED worker

\* tasks.py 55-60: a worker takes the message, loads the row and saves it
\* as INFERRING
StartAttempt ==
    \E m \in queue :
        LET data_file == [db[m.file_id] EXCEPT !.processing_status = "INFERRING"] IN
        /\ queue' = queue \ {m}
        /\ db' = [db EXCEPT ![m.file_id] = data_file]
        /\ worker' = worker \cup {[file_id |-> m.file_id, retries |-> m.retries, data_file |-> data_file]}
        /\ attempts' = [attempts EXCEPT ![m.file_id] = @ + 1]
        /\ UNCHANGED <<resp, latest>>

\* tasks.py 63-83: infer returned
FinishInferred ==
    \E w \in worker, types \in InferredTables :
        LET data_file == [w.data_file EXCEPT !.inferred_types = Dict(types),
                                             !.processing_status = "INFERRED"] IN
        /\ db' = [db EXCEPT ![w.file_id] = data_file]
        /\ worker' = worker \ {w}
        /\ UNCHANGED <<queue, attempts, resp, latest>>

\* tasks.py 84-89: infer raised (reading the stored file can fail on one
\* attempt and work on the next)
FinishFailed ==
    \E w \in worker :
        LET data_file == [w.data_file EXCEPT !.processing_status = "INFERENCE_FAILED",
                                             !.error_message = InferenceError] IN
        /\ db' = [db EXCEPT ![w.file_id] = data_file]
        /\ worker' = worker \ {w}
        /\ queue' = IF ShouldRetry(w.retries)
                    THEN queue \cup {[file_id |-> w.file_id, retries |-> w.retries + 1]}
                    ELSE queue
        /\ UNCHANGED <<attempts, resp, latest>>

\* services.py 88-115 behind api.py 98-137, one request at a time
Override ==
    \E file_id \in 1..MaxFiles, column_name \in ColumnNames, custom_type \in CustomTypes :
        LET found == file_id \in DOMAIN db
            error == IF found THEN OverrideError(db[file_id], column_name, custom_type)
                     ELSE "Http404"
            data_file == IF error = "" THEN WithOverride(db[file_id], column_name, custom_type)
                         ELSE NewDataFile IN
        /\ resp' = [op |-> "override", file_id |-> file_id, column_name |-> column_name,
                    custom_type |-> custom_type, error |-> error, code |-> OverrideCode(error),
                    effective_types |-> IF error = "" THEN get_column_types(data_file)
                                        ELSE EmptyDict]
        /\ IF error = ""
           THEN /\ db' = [db EXCEPT ![file_id] = data_file]
                /\ latest' = [latest EXCEPT ![file_id] = Put(@, column_name, custom_type)]
           ELSE UNCHANGED <<db, latest>>
        /\ UNCHANGED <<queue, worker, attempts>>

FileInit == NoColumn /\ NoFiles /\ NoRace /\ NoValue

FileNext ==
    \/ Upload /\ UNCHANGED <<vars, reqs, svars>>
    \/ Override /\ UNCHANGED <<vars, reqs, svars>>
    \/ StartAttempt /\ UNCHANGED <<vars, reqs, svars>>
    \/ FinishInferred /\ UNCHANGED <<vars, reqs, svars>>
    \/ FinishFailed /\ UNCHANGED <<vars, reqs, svars>>

FileSpec == FileInit /\ [][FileNext]_fvars

\* a Celery worker runs every message it is handed, and a running attempt
\* returns or raises
Work == (StartAttempt \/ FinishInferred \/ FinishFailed) /\ UNCHANGED <<vars, reqs, svars>>
FairFileSpec == FileSpec /\ WF_fvars(Work)


----------------------------------------------------------------------------
(* Two override requests on one processed file, served by two threads.     *)
(* Each request works on the DataFile instance its own get_file returned;  *)
(* nothing locks the row between that SELECT (services.py 95) and the      *)
(* UPDATE of self.save() (models.py 85), which writes every field.         *)

Requests == 1..2

ProcessedFiles ==
    {[processing_status |-> "INFERRED", error_message |-> "",
      inferred_types |-> Dict([a |-> INT64, b |-> OBJECT]),
      overridden_types |-> ov] : ov \in {JsonNull, Dict([b |-> <<"x">>])}}

RaceInit ==
    /\ NoColumn /\ NoValue /\ NoRequest
    /\ queue = {} /\ worker = {} /\ attempts = <<1>> /\ latest = <<EmptyDict>>
    /\ \E data_file \in ProcessedFiles : db = <<data_file>>
    /\ \E args \in [Requests -> [column_name : ColumnNames, custom_type : CustomTypes]] :
           reqs = [r \in Requests |->
                      [pc |-> "start", column_name |-> args[r].column_name,
                       custom_type |-> args[r].custom_type, data_file |-> NewDataFile]]

\* services.py 95-108 and models.py 80-84: the row is read, the checks
\* pass and the instance in memory gets the override
Load(r) ==
    LET req == reqs[r]
        data_file == db[1] IN
    /\ req.pc = "start"
    /\ OverrideError(data_file, req.column_name, req.custom_type) = ""
    /\ reqs' = [reqs EXCEPT ![r] = [req EXCEPT !.pc = "saving",
                   !.data_file = WithOverride(data_file, req.column_name, req.custom_type)]]
    /\ UNCHANGED db

\* services.py 95-106: a check fails and the request is answered with an error
Refuse(r) ==
    LET req == reqs[r] IN
    /\ req.pc = "start"
    /\ OverrideError(db[1], req.column_name, req.custom_type) # ""
    /\ reqs' = [reqs EXCEPT ![r] = [req EXCEPT !.pc = "refused"]]
    /\ UNCHANGED db

\* models.py 85: self.save() writes the instance over the stored row, then
\* the request returns
Save(r) ==
    /\ reqs[r].pc = "saving"
    /\ db' = [db EXCEPT ![1] = reqs[r].data_file]
    /\ reqs' = [reqs EXCEPT ![r] = [@ EXCEPT !.pc = "returned"]]

RaceNext ==
    \E r \in Requests :
        \/ Load(r) /\ UNCHANGED <<vars, queue, worker, attempts, resp, latest, svars>>
        \/ Refuse(r) /\ UNCHANGED <<vars, queue, worker, attempts, resp, latest, svars>>
        \/ Save(r) /\ UNCHANGED <<vars, queue, worker, attempts, resp, latest, svars>>

RaceSpec == RaceInit /\ [][RaceNext]_rvars


----------------------------------------------------------------------------
(* make_serializable (tasks.py 19-49) on the values of one sample record   *)
(* (tasks.py 69-74).  A Python value carries its class in `py`.            *)

PyNone == [py |-> "NoneType"]
PyBool(b) == [py |-> "bool", b |-> b]
PyInt(n) == [py |-> "int", n |-> n]
\* a float by its repr: sign, whole part and the digits after the point
PyFloat(neg, whole, frac) == [py |-> "float", neg |-> neg, whole |-> whole, frac |-> frac]
PyNaN == [py |-> "float", nan |-> TRUE]
PyStr(cs) == [py |-> "str", s |-> cs]
PyComplex(re, im) == [py |-> "complex", re |-> re, im |-> im]
PyList(items) == [py |-> "list", items |-> items]
PyDict(items) == [py |-> "dict", items |-> items]
NpInt(n) == [py |-> "numpy.int64", n |-> n]
NpFloat(neg, whole, frac) == [py |-> "numpy.float64", neg |-> neg, whole |-> whole, frac |-> frac]
NpBool(b) == [py |-> "numpy.bool_", b |-> b]
NdArray(items) == [py |-> "numpy.ndarray", items |-> items]
Timestamp(y, mo, d, h, mi, s) ==
    [py |-> "Timestamp", y |-> y, mo |-> mo, d |-> d, h |-> h, mi |-> mi, s |-> s]
PdNaT == [py |-> "NaTType"]
PdTimedelta(days, secs) == [py |-> "Timedelta", days |-> days, secs |-> secs]

DigitChar(d) == CHOOSE c \in Digits : DigitVal(c) = d
RECURSIVE NatStr(_)
NatStr(n) == IF n < 10 THEN <<DigitChar(n)>> ELSE NatStr(n \div 10) \o <<DigitChar(n % 10)>>
IntStr(n) == IF n < 0 THEN <<"-">> \o NatStr(0 - n) ELSE NatStr(n)
\* %02d, %04d
RECURSIVE Padded(_, _)
Padded(cs, width) == IF Len(cs) < width THEN Padded(<<"0">> \o cs, width) ELSE cs
FloatStr(x) ==
    (IF x.neg THEN <<"-">> ELSE <<>>) \o NatStr(x.whole) \o <<".">> \o x.frac

\* val.strftime("%Y-%m-%d %H:%M:%S")
Strftime(ts) ==
    Padded(NatStr(ts.y), 4) \o <<"-">> \o Padded(NatStr(ts.mo), 2) \o <<"-">>
        \o Padded(NatStr(ts.d), 2) \o <<" ">> \o Padded(NatStr(ts.h), 2) \o <<":">>
        \o Padded(NatStr(ts.mi), 2) \o <<":">> \o Padded(NatStr(ts.s), 2)

\* str(Timedelta) for whole seconds: "D days HH:MM:SS", "+" before the
\* clock when the days are negative
TimedeltaStr(td) ==
    IntStr(td.days) \o <<" ", "d", "a", "y", "s", " ">>
        \o (IF td.days < 0 THEN <<"+">> ELSE <<>>)
        \o Padded(NatStr(td.secs \div 3600), 2) \o <<":">>
        \o Padded(NatStr((td.secs % 3600) \div 60), 2) \o <<":">>
        \o Padded(NatStr(td.secs % 60), 2)

\* str(complex) for whole parts with a non-negative imaginary part
ComplexStr(z) ==
    IF z.re = 0 THEN IntStr(z.im) \o <<"j">>
    ELSE <<"(">> \o IntStr(z.re) \o <<"+">> \o IntStr(z.im) \o <<"j", ")">>

\* str(val)
PyStrOf(x) ==
    CASE x.py = "NoneType" -> <<"N", "o", "n", "e">>
      [] x.py \in {"bool", "numpy.bool_"} ->
             IF x.b THEN <<"T", "r", "u", "e">> ELSE <<"F", "a", "l", "s", "e">>
      [] x.py \in {"int", "numpy.int64"} -> IntStr(x.n)
      [] x.py \in {"float", "numpy.float64"} ->
             IF "nan" \in DOMAIN x THEN <<"n", "a", "n">> ELSE FloatStr(x)
      [] x.py = "str" -> x.s
      [] x.py = "complex" -> ComplexStr(x)
      [] x.py = "Timestamp" -> Strftime(x) \* midnight is not among the inputs
      [] x.py = "Timedelta" -> TimedeltaStr(x)
      [] x.py = "NaTType" -> <<"N", "a", "T">>

\* ndarray.tolist(): the items as native values
ToList(items) ==
    [i \in DOMAIN items |->
        CASE items[i].py = "numpy.int64" -> PyInt(items[i].n)
          [] items[i].py = "numpy.bool_" -> PyBool(items[i].b)
          [] items[i].py = "numpy.float64" -> [items[i] EXCEPT !.py = "float"]
          [] OTHER -> items[i]]

\* tasks.py 46-47: case _: return str(val)
Fallback(x) == PyStr(PyStrOf(x))

\* the match statement of lines 27-47, case by case.  NaT is an instance
\* of datetime, so the Timestamp case takes it
RECURSIVE make_serializable(_)
make_serializable(x) ==
    CASE x.py = "dict" ->
             PyDict([k \in {PyStrOf(key) : key \in DOMAIN x.items} |->
                        make_serializable(
                            x.items[CHOOSE key \in DOMAIN x.items : PyStrOf(key) = k])])
      [] x.py = "list" -> PyList([i \in DOMAIN x.items |-> make_serializable(x.items[i])])
      [] x.py = "numpy.int64" -> PyInt(x.n)
      [] x.py = "numpy.float64" -> [x EXCEPT !.py = "float"]
      [] x.py = "numpy.bool_" -> PyBool(x.b)
      [] x.py = "Timestamp" -> PyStr(Strftime(x))
      [] x.py = "NaTType" -> PyNone
      [] x.py = "Timedelta" -> PyStr(TimedeltaStr(x))
      [] x.py = "numpy.ndarray" -> PyList(ToList(x.items))
      [] x.py = "complex" -> PyStr(PyStrOf(x))
      [] OTHER -> Fallback(x)

MaxLen == 2

S_abc == <<"a", "b", "c">>
\* what df.head().to_dict(orient="records") holds: native and pandas
\* scalars; numpy scalars reach make_serializable from other callers
Natives ==
    {PyNone, PyBool(TRUE), PyBool(FALSE), PyInt(5), PyInt(-12), PyInt(0),
     PyFloat(FALSE, 1, <<"5">>), PyFloat(TRUE, 2, <<"0">>), PyNaN, PyStr(S_abc)}
Scalars ==
    Natives \cup
    {NpInt(5), NpFloat(FALSE, 1, <<"5">>), NpBool(TRUE),
     PyComplex(1, 2), Timestamp(2020, 1, 2, 3, 4, 5), PdNaT,
     PdTimedelta(1, 7384), PdTimedelta(-428, 69783)}
Items == {PyInt(5), NpInt(5), PyNone, PyBool(TRUE), PyStr(S_abc), PdNaT}
Lists == UNION {[1..n -> Items] : n \in 0..MaxLen}
Keys == {PyStr(S_abc), PyInt(5)}
Dicts == UNION {[ks -> Items] : ks \in SUBSET Keys}
Values ==
    Scalars
        \cup {PyList(items) : items \in Lists}
        \cup {NdArray(items) : items \in {<<>>, <<NpInt(5)>>, <<NpInt(5), NpInt(0)>>}}
        \cup {PyDict(items) : items \in Dicts}
        \cup {PyList(<<PyList(items)>>) : items \in Lists}
        \cup {PyDict([k \in {PyStr(S_abc)} |-> PyList(items)]) : items \in Lists}

\* one record of sample_data: two columns
SerialInit ==
    /\ NoColumn /\ NoFiles /\ NoRace
    /\ \E x \in Values, y \in Natives : val = [x |-> x, y |-> y]
    /\ out = EmptyDict

\* tasks.py 73-74: record[key] = make_serializable(value)
Serialize ==
    \E key \in DOMAIN val \ DOMAIN out :
        /\ out' = Put(out, key, make_serializable(val[key]))
        /\ UNCHANGED val

SerialNext == Serialize /\ UNCHANGED <<vars, fvars, reqs>>

SerialSpec == SerialInit /\ [][SerialNext]_svars

----------------------------------------------------------------------------
(* Properties                                                              *)

\* the chain of _infer_column_type has run on the column and infer is over
ChainDone == pc = "done" /\ ran # <<>>
\* the column after null-token normalization: where its missing cells are
Cleaned == _clean_column(raw)
NonNull(s) == {i \in DOMAIN s : ~IsNull(s[i])}
LastRan == ran[Len(ran)]
Claimed(n) == Len(ran) >= n /\ ~ran[n].raised /\ ran[n].dtype # "none"

\* C1: infer never raises on a table that was read, and every column the
\* detector chain is run on ends with exactly one type.
C1_NeverRaises ==
    /\ pc # "raised"
    /\ ChainDone => tag \in {"bool", "complex128", "int64", "float64", "datetime64[ns]",
                             "timedelta64[ns]", "category", "object"}

\* C2: the detectors run in the order Boolean, Complex, Numeric, Datetime,
\* Timedelta; nothing runs after a detector that claimed the column (or
\* raised); the column's type is the answer of the last one run, which is the
\* earliest that claimed; the fallback runs only after all five declined.
ChainOrder == <<"boolean", "complex", "numeric", "datetime", "timedelta", "categorical">>
C2_FixedOrder ==
    /\ Len(ran) <= Len(ChainOrder)
    /\ \A n \in DOMAIN ran : ran[n].name = ChainOrder[n]
    /\ \A n \in 1..(Len(ran) - 1) : ran[n].dtype = "none" /\ ~ran[n].raised
    /\ ChainDone => tag = LastRan.dtype /\ tag # "none"
    /\ pc = "done" => (ran = <<>> \/ Claimed(Len(ran)))
    /\ (ran # <<>> /\ Claimed(Len(ran))) => pc = "done"
    /\ (\E n \in DOMAIN ran : ran[n].name = "categorical") =>
            Len(ran) = 6 /\ \A n \in 1..5 : ran[n].dtype = "none"

\* a later detector claimed a column after the earlier ones declined
C2_Witness == ChainDone /\ Len(ran) = 5 /\ tag = "timedelta64[ns]"

\* C3: the typed column is as long as the column read, and every position
\* that was missing before or after null-token normalization is still
\* missing in the typed output.
C3_NullsStayNull ==
    pc = "done" =>
        /\ Len(series) = Len(raw)
        /\ \A i \in DOMAIN raw : IsNull(Cleaned[i]) => IsNull(series[i])

\* C4: a column whose non-null cells are all boolean tokens (in any letter
\* case) is classified Boolean, with each non-null cell mapped to its
\* boolean; a column with a non-null cell outside the tokens is not Boolean.
TokenOf(c) == Lower(Strip(c.v))
TrueTokens == {<<"t", "r", "u", "e">>, <<"y", "e", "s">>, <<"y">>, <<"1">>, <<"t">>}
AllTokens == TrueTokens \cup {<<"f", "a", "l", "s", "e">>, <<"n", "o">>, <<"n">>, <<"0">>, <<"f">>}
C4_BooleanColumns ==
    pc = "done" /\ rawdtype = "object" =>
        /\ (NonNull(Cleaned) # {} /\ \A i \in NonNull(Cleaned) : TokenOf(Cleaned[i]) \in AllTokens)
              => /\ tag = "bool"
                 /\ \A i \in NonNull(Cleaned) : series[i] = Bool(TokenOf(Cleaned[i]) \in TrueTokens)
        /\ (\E i \in NonNull(Cleaned) : TokenOf(Cleaned[i]) \notin AllTokens) => tag # "bool"

\* C5: a column the Numeric detector claimed is tagged Float if a non-null
\* value failed to coerce or a coerced value is fractional, and Integer only
\* if every non-null value coerced and every coerced value is whole.
FailedToCoerce == {i \in NonNull(Cleaned) : IsNull(series[i])}
Fractional == {i \in NonNull(series) : ~IsWhole(series[i])}
C5_NumericTag ==
    ChainDone /\ LastRan.name = "numeric" =>
        /\ tag \in {"int64", "float64"}
        /\ (FailedToCoerce # {} \/ Fractional # {}) => tag = "float64"
        /\ tag = "int64" => (FailedToCoerce = {} /\ Fractional = {})

\* C6: when a value of the column matches the complex pattern, the Complex
\* detector claims the column, the matching values are parsed, every other
\* value becomes null, and no value makes the detector fail.
IsComplexText(c) == FullMatch(COMPLEX_PATTERN, c.v)
C6_ComplexLossy ==
    Len(ran) >= 2 /\ (\E i \in DOMAIN entered : IsComplexText(entered[i])) =>
        /\ ~ran[2].raised
        /\ ran[2].dtype = "complex128"
        /\ \A i \in DOMAIN entered :
              IF IsComplexText(entered[i]) THEN series[i].k = "complex" ELSE IsNull(series[i])

\* C7: the Datetime detector claims a column exactly when more than half of
\* its non-null values match a date pattern.
DateCells == {i \in NonNull(Cleaned) : MatchesAny(DATE_PATTERNS, Strip(Cleaned[i].v))}
C7_DatetimeThreshold ==
    Len(ran) >= 4 =>
        (Claimed(4) <=> 2 * Cardinality(DateCells) > Cardinality(NonNull(Cleaned)))

\* C8: in a column the Timedelta detector claimed, the compound string
\* "-428 days +19:23:03.487674" is minus 428 days plus 19:23:03.487674, a
\* bare day count is that many days, and a value holding neither a day count
\* nor a clock component (no "day" and no colon in it) is the zero duration.
HasDayWord(cs) == \E i \in 1..(Len(cs) - 2) : SubSeq(cs, i, i + 2) = <<"d", "a", "y">>
C8_TimedeltaParse ==
    ChainDone /\ tag = "timedelta64[ns]" =>
        \A i \in DOMAIN entered :
            /\ entered[i].v = S_Compound =>
                  series[i] = Timedelta(-428, 19 * 3600 + 23 * 60 + 3, 487674)
            /\ entered[i].v = S_3days => series[i] = Timedelta(3, 0, 0)
            /\ ~HasDayWord(entered[i].v) /\ ~Contains(entered[i].v, ":") =>
                  series[i] = Timedelta(0, 0, 0)

\* a claimed column holding the compound string and a value in which
\* neither component is found
C8_Witness ==
    /\ ChainDone /\ tag = "timedelta64[ns]"
    /\ \E i \in DOMAIN entered : entered[i].v = S_Compound
    /\ \E i \in DOMAIN entered : entered[i].v = S_5d /\ series[i] = Timedelta(0, 0, 0)

\* C9: a column no detector claimed is Categorical when its distinct
\* non-null values are fewer than half of its rows (nulls included), and
\* Text otherwise.
DistinctNonNull == Cardinality({Strip(Cleaned[i].v) : i \in NonNull(Cleaned)})
C9_UniqueRatio ==
    ChainDone /\ LastRan.name = "categorical" =>
        /\ tag \in {"category", "object"}
        /\ tag = "category" <=> 2 * DistinctNonNull < Len(raw)

\* C10: a column with zero rows is classified Categorical and nothing is
\* raised.
C10_EmptyColumn ==
    Len(raw) = 0 =>
        /\ pc # "raised"
        /\ pc = "done" => tag = "category"
\* C14: when the detector chain starts, every cell whose trimmed text is one
\* of the null tokens (case-sensitively) is null, and every other text cell
\* holds its own (trimmed) text.
C14_NullTokens ==
    entered # <<>> =>
        \A i \in DOMAIN raw :
            IsStr(raw[i]) =>
                IF Strip(raw[i].v) \in NullTokens
                THEN IsNull(entered[i])
                ELSE entered[i] = Str(Strip(raw[i].v))

\* C16: every detector after the first, and the fallback, is handed the
\* series that entered the chain: a detector that declines changes nothing.
C16_DeclineKeepsSeries ==
    pc \in {"complex", "numeric", "datetime", "timedelta", "categorical"} => series = entered
\* the file records that have been processed
Processed == {f \in DOMAIN db : db[f].processing_status = "INFERRED"}
InferredOf(f) == IF db[f].inferred_types.null THEN EmptyDict ELSE db[f].inferred_types.d
\* the step is an override request on file f that was accepted / refused
Accepted(f) ==
    resp' # resp /\ resp'.op = "override" /\ resp'.file_id = f /\ resp'.error = ""
Refused(f) ==
    resp' # resp /\ resp'.op = "override" /\ resp'.file_id = f /\ resp'.error # ""

EffectiveIsLatest ==
    \A f \in Processed :
        LET effective == get_column_types(db[f]) IN
        /\ DOMAIN effective = DOMAIN InferredOf(f)
        /\ \A c \in DOMAIN effective :
               effective[c] = IF c \in DOMAIN latest[f] THEN latest[f][c] ELSE InferredOf(f)[c]
OverrideTouchesOneColumn ==
    \A f \in DOMAIN db :
        Accepted(f) =>
            /\ db'[f].inferred_types = db[f].inferred_types
            /\ get_column_types(db'[f])[resp'.column_name] = resp'.custom_type
            /\ \A c \in DOMAIN get_column_types(db[f]) \ {resp'.column_name} :
                   get_column_types(db'[f])[c] = get_column_types(db[f])[c]

\* C11: on a processed file the effective type of a column is the type of
\* the most recent accepted override of that column, or its inferred type if
\* it was never overridden; an accepted override changes the effective type
\* of no other column and never changes the inferred types.
C11_EffectiveTypes == []EffectiveIsLatest /\ [][OverrideTouchesOneColumn]_fvars

\* one column overridden (twice or more), the other still as inferred
C11_Witness ==
    \E f \in Processed :
        /\ resp.op = "override" /\ resp.error = "" /\ resp.column_name = "a"
        /\ latest[f] = [a |-> <<"x">>]
        /\ get_column_types(db[f]) = [a |-> <<"x">>, b |-> OBJECT]

Blank(custom_type) == Strip(custom_type) = <<>>
RefusedUnchanged ==
    \A f \in DOMAIN db : Refused(f) => db' = db

\* C12 as stated: on a processed file, an override of a column that is not
\* in the inferred types fails with ColumnNotFoundError, an override with a
\* blank type fails with InvalidColumnTypeError, and a refused override
\* leaves the record as it was.
C12_OverrideErrors ==
    [][/\ \A f \in Processed :
              resp' # resp /\ resp'.op = "override" /\ resp'.file_id = f =>
                  /\ resp'.column_name \notin DOMAIN InferredOf(f)
                         => resp'.error = "ColumnNotFoundError"
                  /\ Blank(resp'.custom_type)
                         => resp'.error = "InvalidColumnTypeError"
       /\ RefusedUnchanged]_fvars

\* C12 amended: on a processed file, an override of a column that is not in
\* the inferred types fails with ColumnNotFoundError whatever its type
\* string; an override of a column that is in the inferred types with a
\* blank type fails with InvalidColumnTypeError; a refused override leaves
\* the record as it was.
C12_OverrideErrors_Amended ==
    [][/\ \A f \in Processed :
              resp' # resp /\ resp'.op = "override" /\ resp'.file_id = f =>
                  /\ resp'.column_name \notin DOMAIN InferredOf(f)
                         => resp'.error = "ColumnNotFoundError"
                  /\ resp'.column_name \in DOMAIN InferredOf(f) /\ Blank(resp'.custom_type)
                         => resp'.error = "InvalidColumnTypeError"
       /\ RefusedUnchanged]_fvars

\* a blank type refused on a file that has overrides
C12_Witness ==
    \E f \in Processed :
        /\ resp.op = "override" /\ resp.error = "InvalidColumnTypeError"
        /\ resp.column_name = "b" /\ Blank(resp.custom_type)
        /\ Truthy(db[f].overridden_types)
\* the step is an upload request
Uploading == resp' # resp /\ resp'.op = "upload"
InvalidFileType == SubSeq(INVALID_FILE_TYPE, 1, 17)
RejectedWith(phrase) == resp'.code = 400 /\ Within(phrase, resp'.detail)
\* a rejected upload creates nothing; any other upload answers 201 with
\* the id of the record it created
UploadOutcome ==
    IF resp'.code = 400
    THEN db' = db /\ queue' = queue
    ELSE /\ resp'.code = 201
         /\ Len(db') = Len(db) + 1
         /\ resp'.file_id = Len(db')

\* C15 as stated: an upload of size 0 is rejected with a 400 whose detail
\* contains "File is empty", an upload whose content type is not allowed
\* with a 400 whose detail contains "Invalid file type"; a rejected upload
\* creates no record and queues no task, an accepted one answers 201 with
\* the id of the new record.
C15_UploadValidation ==
    [][Uploading =>
          /\ resp'.size = 0 => RejectedWith(FILE_IS_EMPTY)
          /\ resp'.content_type \notin ALLOWED_CONTENT_TYPES => RejectedWith(InvalidFileType)
          /\ UploadOutcome]_fvars

\* C15 amended: the size is tested before the content type, so "Invalid
\* file type" is the answer only for a file that is neither empty nor
\* larger than MAX_FILE_SIZE; a file of a type that is not allowed is
\* rejected with a 400 in every case.
C15_UploadValidation_Amended ==
    [][Uploading =>
          /\ resp'.size = 0 => RejectedWith(FILE_IS_EMPTY)
          /\ resp'.content_type \notin ALLOWED_CONTENT_TYPES => resp'.code = 400
          /\ resp'.content_type \notin ALLOWED_CONTENT_TYPES
                 /\ resp'.size # 0 /\ resp'.size <= MAX_FILE_SIZE
                 => RejectedWith(InvalidFileType)
          /\ UploadOutcome]_fvars

\* an empty file of a type that is not allowed has been rejected
C15_Witness ==
    /\ resp.op = "upload" /\ resp.size = 0 /\ resp.content_type = "text/plain"
    /\ resp.code = 400 /\ resp.detail = FILE_IS_EMPTY
    /\ db = <<>> /\ queue = {}

\* C18: a file whose processing_status is INFERRED has an empty
\* error_message.
C18_InferredHasNoError ==
    \A f \in Processed : db[f].error_message = ""

Resting == {"INFERRED", "INFERENCE_FAILED"}
\* the process_file work there is for file f
MessagesFor(f) == {m \in queue : m.file_id = f}
RunningFor(f) == {w \in worker : w.file_id = f}
StartsQueued ==
    Uploading /\ resp'.code = 201 =>
        LET f == resp'.file_id IN
        /\ db'[f].processing_status = "UPLOADING"
        /\ Cardinality({m \in queue' : m.file_id = f}) = 1
        /\ {w \in worker' : w.file_id = f} = {}
StatusMoves ==
    \A f \in DOMAIN db :
        LET from == db[f].processing_status
            to == db'[f].processing_status IN
        from # to =>
            \/ from \in {"UPLOADING", "INFERENCE_FAILED"} /\ to = "INFERRING"
            \/ from = "INFERRING" /\ to \in Resting
InferredStays ==
    \A f \in Processed : db'[f].processing_status = "INFERRED"

\* C19: an accepted upload starts as UPLOADING with exactly one process_file
\* message queued; the status only moves to INFERRING and from there to
\* INFERRED or INFERENCE_FAILED; a file sees at most 1 + 3 attempts; every
\* file comes to rest in INFERRED or INFERENCE_FAILED for good; an INFERRED
\* file stays INFERRED.
C19_Lifecycle ==
    /\ [][StartsQueued /\ StatusMoves /\ InferredStays]_fvars
    /\ [](\A f \in DOMAIN db : attempts[f] <= 1 + 3)
    /\ <>[](\A f \in DOMAIN db : db[f].processing_status \in Resting)

\* the third retry failed as well: the file rests in INFERENCE_FAILED
C19_Witness ==
    \E f \in DOMAIN db :
        /\ attempts[f] = 4 /\ db[f].processing_status = "INFERENCE_FAILED"
        /\ MessagesFor(f) = {} /\ RunningFor(f) = {}
\* C17: once two override requests on the same file for two different
\* columns have both returned successfully, the stored overridden types
\* hold both overrides.
C17_NoLostUpdate ==
    (/\ \A r \in DOMAIN reqs : reqs[r].pc = "returned"
     /\ reqs # <<>>
     /\ reqs[1].column_name # reqs[2].column_name)
    => \A r \in DOMAIN reqs :
           /\ reqs[r].column_name \in DOMAIN Overridden(db[1])
           /\ Overridden(db[1])[reqs[r].column_name] = reqs[r].custom_type
\* o is v itself as a native value of the same kind, element by element
\* inside lists and dicts
RECURSIVE KeepsKind(_, _)
KeepsKind(v, o) ==
    CASE v.py \in {"int", "numpy.int64"} -> o = PyInt(v.n)
      [] v.py \in {"float", "numpy.float64"} -> o = [v EXCEPT !.py = "float"]
      [] v.py \in {"bool", "numpy.bool_"} -> o = PyBool(v.b)
      [] v.py = "NoneType" -> o = PyNone
      [] v.py = "list" ->
             /\ o.py = "list" /\ DOMAIN o.items = DOMAIN v.items
             /\ \A i \in DOMAIN v.items : KeepsKind(v.items[i], o.items[i])
      [] v.py = "dict" ->
             /\ o.py = "dict" /\ DOMAIN o.items = {PyStrOf(k) : k \in DOMAIN v.items}
             /\ \A k \in DOMAIN v.items : KeepsKind(v.items[k], o.items[PyStrOf(k)])
      [] OTHER -> TRUE

\* C13: make_serializable returns every integer, float and boolean (native
\* or numpy) as the same number or boolean, and None as None, never as a
\* string, also inside lists and dicts.
C13_ScalarsKeepKind ==
    \A key \in DOMAIN out : KeepsKind(val[key], out[key])
====
